---- MODULE Spec2Model ----
(***************************************************************************)
(* Model of the two screens of flavor-feast:                               *)
(*   src/screens/RecipeStepsScreen.tsx  (step list editor, save)           *)
(*   src/screens/FavoritesScreen.tsx    (favorite toggle)                  *)
(*                                                                         *)
(* Strings are sequences of one-character strings, so that trim() is       *)
(* computed.  An optional JS value is Absent (undefined) or Present(v).    *)
(***************************************************************************)
EXTENDS Integers, Sequences, FiniteSets, TLC

\* ------------------------------------------------------------ bounds
MaxSteps == 2
MaxCalls == 2
MaxToggles == 2

\* ------------------------------------------------------------ JS values
Absent == <<>>
Present(v) == <<v>>
IsPresent(o) == o # Absent
Val(o) == o[1]

IsWhite(c) == c = " "

RECURSIVE TrimStart(_)
TrimStart(s) ==
  IF s # <<>> /\ IsWhite(Head(s)) THEN TrimStart(Tail(s)) ELSE s

RECURSIVE TrimEnd(_)
TrimEnd(s) ==
  IF s # <<>> /\ IsWhite(s[Len(s)]) THEN TrimEnd(SubSeq(s, 1, Len(s) - 1)) ELSE s

\* String.prototype.trim
Trim(s) == TrimEnd(TrimStart(s))

\* JS truthiness of an optional string: undefined and '' are falsy
TruthyStr(o) == IsPresent(o) /\ Val(o) # <<>>

\* `o && o.trim() !== ''`
NonBlank(o) == TruthyStr(o) /\ Trim(Val(o)) # <<>>

\* ------------------------------------------------------------ inputs
\* what the user may type into a step's text field and image field
TextInputs == { <<>>, <<" ">>, <<" ", "a", " ">> }
UrlInputs == { <<>>, <<"u">> }

NewStep == [text |-> Present(<<>>), description |-> Absent, imageUrl |-> Present(<<>>)]
ValidStep == [text |-> Present(<<"a">>), description |-> Absent, imageUrl |-> Present(<<"u">>)]
BlankStep == [text |-> Present(<<" ">>), description |-> Absent, imageUrl |-> Absent]
LegacyStep == [text |-> Absent, description |-> Present(<<"d">>), imageUrl |-> Absent]
LegacyBlankStep == [text |-> Present(<<>>), description |-> Present(<<" ">>), imageUrl |-> Absent]

\* recipe.steps of the route payload: undefined, or an array
PayloadSteps ==
  { Absent, Present(<<>>), Present(<<ValidStep>>), Present(<<BlankStep>>),
    Present(<<LegacyStep>>), Present(<<LegacyBlankStep>>),
    Present(<<BlankStep, ValidStep>>), Present(<<LegacyStep, ValidStep>>) }

IdInputs == { Absent, Present(<<>>), Present(<<" ">>), Present(<<"r", "1">>) }
IngredientInputs == { Absent, Present(<<>>), Present(<<"i">>) }

\* the route payloads, without their steps
Recipes == [ingredients : IngredientInputs, id : IdInputs, createdByUser : BOOLEAN]

OwnRecipe == [ingredients |-> Present(<<"i">>), id |-> Present(<<"r", "1">>), createdByUser |-> TRUE]
NewRecipe == [ingredients |-> Present(<<"i">>), id |-> Absent, createdByUser |-> FALSE]

\* what addRecipe / editRecipe may throw: an Error with a message, or another value
ErrorCodes == {"IMAGEN_INVALIDA", "INGREDIENTE_INVALIDO", "PASO_INVALIDO", "ERROR_VALIDACION"}
Thrown ==
  [isError : {TRUE}, message : ErrorCodes \cup {"Network request failed"}]
  \cup [isError : {FALSE}, message : {"IMAGEN_INVALIDA"}]

\* the user session: no user, or a user whose id may be missing or empty
Users ==
  { Absent, Present([id |-> Absent]), Present([id |-> Present(<<>>)]),
    Present([id |-> Present(<<"u", "1">>)]) }

\* the recipes shown in the favorites list
Favorites == {"f1", "f2"}

\* what toggleFavorite resolves to
ToggleResults ==
  { [success |-> TRUE, message |-> Absent],
    [success |-> FALSE, message |-> Absent],
    [success |-> FALSE, message |-> Present(<<"m">>)] }

\* ------------------------------------------------------------ state
VARIABLES
  recipe,            \* route.params.recipe (without its steps)
  steps,             \* useState(recipe?.steps || [])
  origin,            \* for each record of steps, the index in recipe.steps of the
                     \* object it is (0 for an object that addStep created): the
                     \* arrays are copied, their records are shared
  showSuccessModal,
  showErrorModal,
  isEditing,
  saving,
  modalType,
  errorType,
  inflight,          \* pending addRecipe / editRecipe calls
  screen,            \* "editor" while RecipeStepsScreen is mounted, else "away"
  persisted,         \* TRUE once an addRecipe / editRecipe call has succeeded
  user,              \* useUserContext().user
  toggleInflight,    \* pending toggleFavorite calls, each with its item
  loginAlertVisible, \* the login prompt of showLoginAlert is requested
  alert,             \* the Alert.alert of the last event ("none" if it raised none)
  called,            \* the addRecipe / editRecipe call of the last event, with its
                     \* arguments (Absent if it made none)
  last,              \* the name of the last handler that ran
  arg                \* its argument: an index, an item, the value caught (Absent if none)

editorVars == <<recipe, steps, origin, showSuccessModal, showErrorModal, isEditing, saving,
                modalType, errorType, inflight, screen, persisted>>

favVars == <<user, toggleInflight, loginAlertVisible>>

vars == <<editorVars, favVars, alert, called, last, arg>>

\* an event that makes no persistence call
Did(op, a) == last' = op /\ arg' = a /\ called' = Absent

\* ------------------------------------------------------------ RecipeStepsScreen
\* useState(recipe?.steps || [])
InitialSteps(payload) == IF IsPresent(payload) THEN Val(payload) ELSE <<>>

EditorInit(recipes, payloads) ==
  /\ recipe \in recipes
  /\ \E payload \in payloads : steps = InitialSteps(payload)
  /\ origin = [i \in DOMAIN steps |-> i]
  /\ showSuccessModal = FALSE
  /\ showErrorModal = FALSE
  /\ isEditing = FALSE
  /\ saving = FALSE
  /\ modalType = "null"
  /\ errorType = ""
  /\ inflight = <<>>
  /\ screen = "editor"
  /\ persisted = FALSE

FavInit(users) ==
  /\ user \in users
  /\ toggleInflight = <<>>
  /\ loginAlertVisible = FALSE

\* A modal that is visible covers the editor and takes its touches.
EditorTouchable == screen = "editor" /\ ~showSuccessModal /\ ~showErrorModal

addStep ==
  /\ EditorTouchable
  /\ Len(steps) < MaxSteps
  /\ steps' = Append(steps, NewStep)
  /\ origin' = Append(origin, 0)
  /\ alert' = "none"
  /\ Did("addStep", Absent)
  /\ UNCHANGED <<recipe, showSuccessModal, showErrorModal, isEditing, saving,
                 modalType, errorType, inflight, screen, persisted, favVars>>

\* a removal that drops the last record whatever the index (steps.pop())
FilterOutIndex_DropLast(s, index) == SubSeq(s, 1, Len(s) - 1)

\* steps.filter((_, i) => i !== index), index counted from 1 here
FilterOutIndex(s, index) ==
  [j \in 1..(Len(s) - 1) |-> IF j < index THEN s[j] ELSE s[j + 1]]

\* a floor of zero steps (steps.length > 0)
CanRemove_NoFloor(n) == n > 0

\* steps.length > 1
CanRemove(n) == n > 1

\* The handler is modelled for every index of a rendered step; the screen
\* renders its remove button only while steps.length > 1 (line 186).

removeStep(index) ==
  /\ EditorTouchable
  /\ IF CanRemove(Len(steps))
       THEN /\ steps' = FilterOutIndex(steps, index)
            /\ origin' = FilterOutIndex(origin, index)
            /\ alert' = "none"
       ELSE /\ steps' = steps
            /\ origin' = origin
            /\ alert' = "Debe tener al menos un paso"
  /\ Did("removeStep", Present(index))
  /\ UNCHANGED <<recipe, showSuccessModal, showErrorModal, isEditing, saving,
                 modalType, errorType, inflight, screen, persisted, favVars>>

\* (updated[index] as any)[field] = value: the record object is written in place
AssignField(record, field, value) == [record EXCEPT ![field] = Present(value)]

\* The record of recipe.steps[k] as it reads now, while steps holds it: useState
\* took the payload's array, and updated = [...steps] copies an array, not its
\* records, so the record of steps with origin k is the payload's own object.
HeldFromPayload(k) == \E i \in DOMAIN origin : origin[i] = k
PayloadRecord(k) == steps[CHOOSE i \in DOMAIN origin : origin[i] = k]

handleChange(index, field, value) ==
  /\ EditorTouchable
  /\ steps' = [steps EXCEPT ![index] = AssignField(@, field, value)]
  /\ alert' = "none"
  /\ Did("handleChange", Present(index))
  /\ UNCHANGED <<recipe, origin, showSuccessModal, showErrorModal, isEditing, saving,
                 modalType, errorType, inflight, screen, persisted, favVars>>

\* ---- handleSave
\* a test that forgets the empty array (!recipe.ingredients alone)
NoIngredients_MissingOnly == ~IsPresent(recipe.ingredients)

\* !recipe.ingredients || recipe.ingredients.length === 0
NoIngredients == ~IsPresent(recipe.ingredients) \/ Len(Val(recipe.ingredients)) = 0

\* a filter that forgets trim()
IsValidStep_NoTrim(step) == TruthyStr(step.text) \/ TruthyStr(step.description)

\* (step.text && step.text.trim() !== '') || (step.description && step.description.trim() !== '')
IsValidStep(step) == NonBlank(step.text) \/ NonBlank(step.description)

\* a save that hands over every step, valid or not
validSteps_Unfiltered == steps

\* steps.filter(...)
validSteps == SelectSeq(steps, IsValidStep)

completeRecipe == [recipe |-> recipe, steps |-> validSteps]

\* a test that forgets recipe.createdByUser
IsEdit_NoOwner == NonBlank(recipe.id)

\* recipe.id && recipe.id.trim() !== '' && recipe.createdByUser
IsEdit == NonBlank(recipe.id) /\ recipe.createdByUser

PersistenceCall ==
  IF IsEdit
    THEN [op |-> "editRecipe", id |-> recipe.id, data |-> completeRecipe]
    ELSE [op |-> "addRecipe", id |-> Absent, data |-> completeRecipe]

\* the synchronous part of handleSave, up to its await
handleSave ==
  /\ Len(inflight) < MaxCalls
  /\ IF NoIngredients
       THEN /\ alert' = "Debe ingresar al menos un ingrediente."
            /\ called' = Absent
            /\ UNCHANGED <<saving, inflight>>
       ELSE IF Len(validSteps) = 0
         THEN /\ alert' = "Debe ingresar al menos un paso."
              /\ called' = Absent
              /\ UNCHANGED <<saving, inflight>>
         ELSE /\ saving' = TRUE
              /\ inflight' = Append(inflight, PersistenceCall.op)
              /\ called' = Present(PersistenceCall)
              /\ alert' = "none"
  /\ last' = "handleSave"
  /\ arg' = Absent
  /\ UNCHANGED <<recipe, steps, showSuccessModal, showErrorModal, isEditing,
                 modalType, errorType, screen, persisted, favVars, origin>>

\* a save button that is never disabled
SaveButtonDisabled_Never == FALSE

\* disabled={saving} of the save button
SaveButtonDisabled == saving

\* a press of the save button: onPress runs only while the button is enabled.
\* setSaving(true) runs in the press event itself, before the await, so the
\* button is rendered disabled before the next press is dispatched.
pressSave ==
  /\ EditorTouchable
  /\ IF SaveButtonDisabled
       THEN /\ Did("pressDisabledSave", Absent)
            /\ alert' = "none"
            /\ UNCHANGED <<recipe, steps, showSuccessModal, showErrorModal, isEditing,
                           saving, modalType, errorType, inflight, screen, persisted, favVars, origin>>
       ELSE handleSave

RemoveAt(s, k) == [j \in 1..(Len(s) - 1) |-> IF j < k THEN s[j] ELSE s[j + 1]]

\* setSaving(false) as the last statement of the try block instead of in finally
finallySaving_TryOnly(threw) == IF threw THEN saving ELSE FALSE

\* finally { setSaving(false) }, whether the try block threw or not
finallySaving(threw) == FALSE

\* the rest of the try block once the awaited call number k has returned, then finally
handleSaveResolved(k) ==
  /\ IF inflight[k] = "editRecipe"
       THEN /\ isEditing' = TRUE
            /\ modalType' = "EDIT_SUCCESS"
            /\ showSuccessModal' = TRUE
       ELSE /\ isEditing' = isEditing
            /\ modalType' = "CREATE_SUCCESS"
            /\ showSuccessModal' = TRUE
  /\ saving' = finallySaving(FALSE)
  /\ inflight' = RemoveAt(inflight, k)
  /\ persisted' = TRUE
  /\ alert' = "none"
  /\ Did("handleSaveResolved", Absent)
  /\ UNCHANGED <<recipe, steps, showErrorModal, errorType, screen, favVars, origin>>

\* error.message without the instanceof test
ErrorMessageOf_AnyMessage(error) == error.message

\* error instanceof Error ? error.message : 'ERROR_GENERAL'
ErrorMessageOf(error) == IF error.isError THEN error.message ELSE "ERROR_GENERAL"

\* the catch block once the awaited call number k has thrown, then finally
handleSaveRejected(k, error) ==
  /\ errorType' = ErrorMessageOf(error)
  /\ modalType' = "ERROR"
  /\ showErrorModal' = TRUE
  /\ saving' = finallySaving(TRUE)
  /\ inflight' = RemoveAt(inflight, k)
  /\ alert' = "none"
  /\ Did("handleSaveRejected", Present(error))
  /\ UNCHANGED <<recipe, steps, showSuccessModal, isEditing, screen, persisted, favVars, origin>>

handleGoToMyRecipes ==
  /\ screen = "editor"
  /\ showSuccessModal
  /\ showSuccessModal' = FALSE
  /\ modalType' = "null"
  /\ screen' = "away"
  /\ alert' = "none"
  /\ Did("handleGoToMyRecipes", Absent)
  /\ UNCHANGED <<recipe, steps, showErrorModal, isEditing, saving, errorType,
                 inflight, persisted, favVars, origin>>

handleCloseErrorModal ==
  /\ screen = "editor"
  /\ showErrorModal
  /\ showErrorModal' = FALSE
  /\ modalType' = "null"
  /\ errorType' = ""
  /\ alert' = "none"
  /\ Did("handleCloseErrorModal", Absent)
  /\ UNCHANGED <<recipe, steps, showSuccessModal, isEditing, saving, inflight,
                 screen, persisted, favVars, origin>>

\* onRequestClose of the success modal
onRequestCloseSuccess ==
  /\ screen = "editor"
  /\ showSuccessModal
  /\ showSuccessModal' = FALSE
  /\ alert' = "none"
  /\ Did("onRequestCloseSuccess", Absent)
  /\ UNCHANGED <<recipe, steps, showErrorModal, isEditing, saving, modalType,
                 errorType, inflight, screen, persisted, favVars, origin>>

\* onRequestClose of the error modal
onRequestCloseError ==
  /\ screen = "editor"
  /\ showErrorModal
  /\ showErrorModal' = FALSE
  /\ alert' = "none"
  /\ Did("onRequestCloseError", Absent)
  /\ UNCHANGED <<recipe, steps, showSuccessModal, isEditing, saving, modalType,
                 errorType, inflight, screen, persisted, favVars, origin>>

\* navigation.goBack() of the back button and of the cancel button
goBack ==
  /\ EditorTouchable
  /\ screen' = "away"
  /\ alert' = "none"
  /\ Did("goBack", Absent)
  /\ UNCHANGED <<recipe, steps, showSuccessModal, showErrorModal, isEditing, saving,
                 modalType, errorType, inflight, persisted, favVars, origin>>

getErrorMessage ==
  CASE errorType = "IMAGEN_INVALIDA" -> "Error en la imagen"
    [] errorType = "INGREDIENTE_INVALIDO" -> "Error en los ingredientes"
    [] errorType = "PASO_INVALIDO" -> "Error en los pasos"
    [] errorType = "ERROR_VALIDACION" -> "Error de validacion"
    [] OTHER -> "Error al guardar la receta"

getSuccessMessage ==
  CASE modalType = "CREATE_SUCCESS" -> "Receta creada con exito"
    [] modalType = "EDIT_SUCCESS" -> "Receta actualizada con exito"
    [] OTHER -> "Operacion exitosa"

\* ------------------------------------------------------------ FavoritesScreen
\* a test of the user alone, not of its id
IsAuthenticated_UserOnly == IsPresent(user)

\* user?.id
IsAuthenticated == IsPresent(user) /\ TruthyStr(Val(user).id)

handleFavoritePress(item) ==
  /\ IF ~IsAuthenticated
       THEN /\ loginAlertVisible' = TRUE
            /\ UNCHANGED toggleInflight
       ELSE /\ Len(toggleInflight) < MaxToggles
            /\ toggleInflight' = Append(toggleInflight, item)
            /\ UNCHANGED loginAlertVisible
  /\ alert' = "none"
  /\ Did("handleFavoritePress", Present(item))
  /\ UNCHANGED <<editorVars, user>>

\* the rest of handleFavoritePress once the awaited toggleFavorite number k has returned
handleFavoriteResult(k, result) ==
  /\ toggleInflight' = RemoveAt(toggleInflight, k)
  /\ alert' = IF ~result.success /\ TruthyStr(result.message) THEN "toggleFavorite message" ELSE "none"
  /\ Did("handleFavoriteResult", Present(result))
  /\ UNCHANGED <<editorVars, user, loginAlertVisible>>

\* onClose={hideAlert} of the CustomAlert
hideAlert ==
  /\ loginAlertVisible
  /\ loginAlertVisible' = FALSE
  /\ alert' = "none"
  /\ Did("hideAlert", Absent)
  /\ UNCHANGED <<editorVars, user, toggleInflight>>

\* the user context changes: a login, a logout
sessionChange(u) ==
  /\ u # user
  /\ user' = u
  /\ alert' = "none"
  /\ Did("sessionChange", Present(u))
  /\ UNCHANGED <<editorVars, toggleInflight, loginAlertVisible>>

\* ------------------------------------------------------------ specifications
EditorNext(texts, urls, thrown) ==
  \/ addStep
  \/ \E index \in DOMAIN steps : removeStep(index)
  \/ \E index \in DOMAIN steps : \E value \in texts : handleChange(index, "text", value)
  \/ \E index \in DOMAIN steps : \E value \in urls : handleChange(index, "imageUrl", value)
  \/ pressSave
  \/ \E k \in DOMAIN inflight : handleSaveResolved(k)
  \/ \E k \in DOMAIN inflight : \E error \in thrown : handleSaveRejected(k, error)
  \/ handleGoToMyRecipes
  \/ handleCloseErrorModal
  \/ onRequestCloseSuccess
  \/ onRequestCloseError
  \/ goBack

FavNext ==
  \/ \E item \in Favorites : handleFavoritePress(item)
  \/ \E k \in DOMAIN toggleInflight : \E result \in ToggleResults : handleFavoriteResult(k, result)
  \/ hideAlert
  \/ \E u \in Users : sessionChange(u)

Idle == alert = "none" /\ called = Absent /\ last = "mount" /\ arg = Absent

\* the editor screen: few payloads, every step input
SpecRecipes == { OwnRecipe, NewRecipe, [NewRecipe EXCEPT !.ingredients = Present(<<>>)] }
SpecPayloads == { Absent, Present(<<LegacyStep>>), Present(<<BlankStep, ValidStep>>) }
SpecThrown == { [isError |-> TRUE, message |-> "PASO_INVALIDO"],
                [isError |-> FALSE, message |-> "IMAGEN_INVALIDA"] }

Init == EditorInit(SpecRecipes, SpecPayloads) /\ FavInit({Absent}) /\ Idle

Next == EditorNext(TextInputs, UrlInputs, SpecThrown)

Spec == Init /\ [][Next]_vars

\* the editor screen: every payload, few step inputs
SaveRecipes ==
  { r \in Recipes : r.ingredients = Present(<<"i">>) \/ (r.id = Absent /\ ~r.createdByUser) }
SavePayloads == { Absent, Present(<<LegacyStep>>), Present(<<LegacyBlankStep, BlankStep>>) }

InitSave == EditorInit(SaveRecipes, SavePayloads) /\ FavInit({Absent}) /\ Idle

NextSave ==
  EditorNext({<<" ">>, <<" ", "a", " ">>}, {<<"u">>}, {[isError |-> TRUE, message |-> "PASO_INVALIDO"]})

SpecSave == InitSave /\ [][NextSave]_vars

\* the editor screen: every value a persistence call may throw
InitErrors == EditorInit({OwnRecipe, NewRecipe}, {Present(<<ValidStep>>)}) /\ FavInit({Absent}) /\ Idle

NextErrors == EditorNext({<<" ">>}, {<<"u">>}, Thrown)

SpecErrors == InitErrors /\ [][NextErrors]_vars

\* the favorites screen
InitFav == EditorInit({NewRecipe}, {Absent}) /\ FavInit(Users) /\ Idle

SpecFav == InitFav /\ [][FavNext]_vars

\* ------------------------------------------------------------ claims
MinStepAlert == "Debe tener al menos un paso"
NoIngredientsAlert == "Debe ingresar al menos un ingrediente."
NoValidStepsAlert == "Debe ingresar al menos un paso."

\* C1: at most one persistence call is in flight at a time, and a press of the
\* save button while SAVING starts no persistence call and changes nothing.
C1_SingleFlight ==
  /\ [](Len(inflight) <= 1)
  /\ [][saving => Len(inflight') <= Len(inflight) /\ called' = Absent]_vars
  /\ [][last' = "pressDisabledSave" => UNCHANGED <<editorVars, favVars>>]_vars

\* a press of the save button was refused while a call is pending
C1_Witness == last = "pressDisabledSave" /\ saving /\ Len(inflight) = 1

\* C2 as claimed: the steps sequence has at least one element in every state.
C2_Original == Len(steps) >= 1

\* C2 as amended: no operation empties a steps sequence that has an element.
C2_FloorKept == [][Len(steps) >= 1 => Len(steps') >= 1]_vars

\* a removal was rejected at the floor of one step
C2_Witness == last = "removeStep" /\ Len(steps) = 1 /\ alert = MinStepAlert

\* C6: the SAVING flag is set while a persistence call is pending, and the
\* completion of a call, by return or by throw, leaves the flag false.
C6_FlagCleared ==
  /\ [](inflight # <<>> => saving)
  /\ [][Len(inflight') < Len(inflight) => ~saving']_vars

\* a persistence call threw and the flag is false
C6_Witness == last = "handleSaveRejected" /\ ~saving /\ modalType = "ERROR"

\* C7: once a save has succeeded, no event starts a further persistence call.
C7_ConsumedOnce == [][persisted => called' = Absent]_vars

Blank(o) == o = Absent \/ \A i \in DOMAIN Val(o) : Val(o)[i] = " "

\* C3: with ingredients missing or empty, whatever the steps, save reports
\* NO_INGREDIENTS, makes no persistence call and leaves the save state machine
\* (SAVING flag, modal type, modal visibility) as it was.
C3_NoIngredients ==
  /\ [][last' = "handleSave" /\ recipe.ingredients \in {Absent, Present(<<>>)} =>
          /\ alert' = NoIngredientsAlert
          /\ called' = Absent
          /\ UNCHANGED <<saving, inflight, modalType, showSuccessModal, showErrorModal>>]_vars
  /\ [](recipe.ingredients \in {Absent, Present(<<>>)} =>
          ~saving /\ inflight = <<>> /\ modalType = "null" /\ ~persisted)

\* save was refused for an empty ingredients array although a step is valid
C3_Witness ==
  /\ last = "handleSave"
  /\ recipe.ingredients = Present(<<>>)
  /\ alert = NoIngredientsAlert
  /\ \E i \in DOMAIN steps : ~Blank(steps[i].text)

\* C4 as claimed: with ingredients, save of a draft whose every step has a text
\* that is empty or whitespace only reports NO_VALID_STEPS and makes no
\* persistence call.
C4_Original ==
  [][/\ last' = "handleSave"
     /\ recipe.ingredients = Present(<<"i">>)
     /\ \A i \in DOMAIN steps : IsPresent(steps[i].text) /\ Blank(steps[i].text)
     => alert' = NoValidStepsAlert /\ called' = Absent /\ inflight' = inflight]_vars

\* C4 as amended: the same, for a draft whose every step has blank text and a
\* blank or missing legacy description.
C4_NoValidSteps ==
  [][/\ last' = "handleSave"
     /\ recipe.ingredients = Present(<<"i">>)
     /\ \A i \in DOMAIN steps : Blank(steps[i].text) /\ Blank(steps[i].description)
     => alert' = NoValidStepsAlert /\ called' = Absent /\ UNCHANGED <<saving, inflight>>]_vars

\* save was refused for steps that hold whitespace only
C4_Witness ==
  /\ last = "handleSave"
  /\ alert = NoValidStepsAlert
  /\ \E i \in DOMAIN steps : steps[i].text = Present(<<" ">>)

\* the identity is present and not blank, and the recipe is the user's own
C5_OwnWithIdentity == ~Blank(recipe.id) /\ recipe.createdByUser

\* C5: a save that passes validation calls editRecipe(id, completeRecipe) iff
\* the identity is present, not blank and the recipe is owned, else
\* addRecipe(completeRecipe); a call that returns sets EDIT_SUCCESS after
\* editRecipe and CREATE_SUCCESS after addRecipe.
C5_EditOrCreate ==
  /\ last = "handleSave" /\ alert = "none" =>
       /\ IsPresent(called)
       /\ Val(called).data.recipe = recipe
       /\ IF C5_OwnWithIdentity
            THEN Val(called).op = "editRecipe" /\ Val(called).id = recipe.id
            ELSE Val(called).op = "addRecipe"
  /\ last = "handleSaveResolved" =>
       /\ showSuccessModal
       /\ modalType = IF C5_OwnWithIdentity THEN "EDIT_SUCCESS" ELSE "CREATE_SUCCESS"

\* a recipe with an identity that is not the user's own was created
C5_Witness ==
  /\ last = "handleSaveResolved"
  /\ recipe.id = Present(<<"r", "1">>)
  /\ ~recipe.createdByUser
  /\ modalType = "CREATE_SUCCESS"

\* the kind shown for a caught value: by its code if it is an Error, else general
C8_Kind(error) ==
  IF error.isError /\ error.message = "IMAGEN_INVALIDA" THEN "Error en la imagen"
  ELSE IF error.isError /\ error.message = "INGREDIENTE_INVALIDO" THEN "Error en los ingredientes"
  ELSE IF error.isError /\ error.message = "PASO_INVALIDO" THEN "Error en los pasos"
  ELSE IF error.isError /\ error.message = "ERROR_VALIDACION" THEN "Error de validacion"
  ELSE "Error al guardar la receta"

\* C8: a persistence call that throws ends in result state ERROR with the error
\* modal shown and the kind of the value thrown, and never in a success state.
C8_ErrorClassified ==
  last = "handleSaveRejected" =>
    /\ modalType = "ERROR"
    /\ showErrorModal
    /\ ~showSuccessModal
    /\ getErrorMessage = C8_Kind(Val(arg))

\* a value that is no Error was thrown and is shown as the general kind
C8_Witness ==
  /\ last = "handleSaveRejected"
  /\ arg = Present([isError |-> FALSE, message |-> "IMAGEN_INVALIDA"])
  /\ getErrorMessage = "Error al guardar la receta"

\* the session holds a user with a non-empty id
C9_HasIdentity == user # Absent /\ Val(user).id \notin {Absent, Present(<<>>)}

\* C9: a favorite press without a user identity starts no toggleFavorite call
\* and requests the login prompt; a call starts only with an identity.
C9_LoginRequired ==
  /\ [][last' = "handleFavoritePress" /\ ~C9_HasIdentity =>
          toggleInflight' = toggleInflight /\ loginAlertVisible']_vars
  /\ [][Len(toggleInflight') > Len(toggleInflight) => C9_HasIdentity]_vars

\* a press by a user whose id is empty requested the login prompt
C9_Witness ==
  /\ last = "handleFavoritePress"
  /\ user = Present([id |-> Present(<<>>)])
  /\ loginAlertVisible
  /\ toggleInflight = <<>>

\* a step is valid: its text or its legacy description is not blank
C11_Valid(step) == ~Blank(step.text) \/ ~Blank(step.description)

\* the valid records of a sequence, in their order
RECURSIVE C11_Keep(_)
C11_Keep(s) ==
  IF s = <<>> THEN <<>>
  ELSE (IF C11_Valid(Head(s)) THEN <<Head(s)>> ELSE <<>>) \o C11_Keep(Tail(s))

\* C11: the draft handed to addRecipe / editRecipe holds exactly the valid steps
\* of the draft, in their order, and every other field of the recipe unchanged.
C11_ValidStepsHanded ==
  last = "handleSave" /\ IsPresent(called) =>
    /\ Val(called).data.steps = C11_Keep(steps)
    /\ Val(called).data.recipe = recipe

\* a save handed over the second of two steps and left out the blank first one
C11_Witness ==
  /\ last = "handleSave"
  /\ IsPresent(called)
  /\ Len(steps) = 2
  /\ Blank(steps[1].text) /\ Blank(steps[1].description)
  /\ Val(called).data.steps = <<steps[2]>>

\* C12: updateStepField(index, field, value) yields a new sequence in which only
\* the named field of the record at index differs, and the records held before,
\* those of the recipe payload among them, keep their old values.
C12_NoAliasing ==
  [][last' = "handleChange" =>
       LET i == Val(arg')
       IN  /\ Len(steps') = Len(steps)
           /\ \A j \in DOMAIN steps : j # i => steps'[j] = steps[j]
           /\ Cardinality({f \in DOMAIN steps[i] : steps'[i][f] # steps[i][f]}) <= 1
           /\ \A k \in 1..Len(steps) :
                HeldFromPayload(k) => PayloadRecord(k)' = PayloadRecord(k)]_vars

====
